---------------------------- MODULE Spec2Model ----------------------------
(***************************************************************************)
(* The ETL orchestrator of python-etl-sql-postgres (src/src/main.py) and   *)
(* the components it calls: the mapping compiler, the schema provisioner,  *)
(* the Table Builder, the Extractor and the Loader.                        *)
(*                                                                         *)
(* Python values are modelled as tagged records ([t |-> "None"],           *)
(* [t |-> "bool", v |-> ...], [t |-> "tuple", ...], [t |-> "list", ...]),  *)
(* so that a caller that unpacks, indexes or iterates a value of the wrong *)
(* shape raises as Python does.  Files, connections and the two database   *)
(* engines are the environment: what they answer is drawn per call.        *)
(***************************************************************************)
EXTENDS Integers, Sequences, FiniteSets, TLC

VARIABLES
  op,           \* entry point of this behaviour: "main", or a component called directly
  args,         \* argparse.Namespace: [database, seed_test_database]
  csv,          \* mapping.csv as read in this run: [read, readable, rows]
  artifacts,    \* mapping_source.json / mapping_destination.json on disk
  pc,           \* position of main() in its sequence of calls
  status,       \* "running" | "exited" (sys.exit) | "crashed" (uncaught exception) | "completed"
  exit_msg,     \* what the process prints when it ends early: the sys.exit message
                \* or the traceback of the exception that escaped, as tokens
  steps,        \* the calls main() has made, in order, each with the indicator it got
  stmts,        \* every statement that reached an engine, in order
  source_data,  \* main()'s local variable source_data / the Loader's argument `data`
  call,         \* the last component call: what the environment answered (inp), what
                \* the component returned (ret), the statements it sent (sent), the
                \* connections it opened and closed (conns)
  cluster       \* the PostgreSQL server, where a behaviour tracks it: the databases
                \* and the role that exist, the DROPs that found nothing to drop

vars == <<op, args, csv, artifacts, pc, status, exit_msg, steps, stmts,
          source_data, call, cluster>>

---------------------------------------------------------------------------
(* Bounds *)

MaxRows == 2        \* rows of mapping.csv
TableIds == {1, 2}  \* table_id values of mapping.csv
Orders == {1, 2}    \* execution_order values of mapping.csv

---------------------------------------------------------------------------
(* Python values *)

None == [t |-> "None"]
Bool(b) == [t |-> "bool", v |-> b]
Str(s) == [t |-> "str", v |-> s]
List(s) == [t |-> "list", v |-> s]
\* a 2-tuple (a, b)
Tuple(a, b) == [t |-> "tuple", a |-> a, b |-> b]
\* an exception leaving a function
Raise(e) == [t |-> "raise", e |-> e]
Pending == [t |-> "pending"]

IsRaise(x) == x.t = "raise"

\* bool(x), as `if x:` / `if not x:` evaluate it
Truthy(x) ==
  CASE x.t = "None" -> FALSE
    [] x.t = "bool" -> x.v
    [] x.t = "str" -> x.v # ""
    [] x.t = "list" -> x.v # <<>>
    [] x.t = "tuple" -> TRUE
    [] OTHER -> TRUE

---------------------------------------------------------------------------
(* Names *)

\* a database name is a sequence of tokens; "_test" is the test-suffix marker
TestSuffix == "_test"
DatabaseNames == { <<"sales">>, <<"sales", TestSuffix>> }
\* f"{args.database}_test"
test_database(database) == Append(database, TestSuffix)
\* "_test" in database
HasTestMarker(database) == \E i \in 1..Len(database) : database[i] = TestSuffix
\* config("POSTGRES_DB_NAME"): the administrative database
POSTGRES_DB_NAME == <<"postgres">>

---------------------------------------------------------------------------
(* Environment answers *)

Placeholders == {"database", "password"}
\* a template file: missing, blank (empty or only newlines/tabs), or text with placeholders
TemplateFiles ==
  { [state |-> "missing", ph |-> {}], [state |-> "blank", ph |-> {}] }
  \cup { [state |-> "text", ph |-> p] : p \in SUBSET Placeholders }
ConnAnswers == {"ok", "refused"}
EngineAnswers == {"ok", "IntegrityError", "OperationalError", "Error"}

\* what the environment answers during one templated call: the template file,
\* the first and the second connection attempt, the engine.  An answer nobody
\* asks for is fixed to "ok".
PgIO ==
  { io \in [file : TemplateFiles, conn1 : ConnAnswers, conn2 : ConnAnswers,
            engine : EngineAnswers] :
      /\ io.conn1 = "ok" => io.conn2 = "ok"
      /\ (io.file.state = "missing" \/ io.file.ph = Placeholders)
           => io.conn1 = "ok" /\ io.engine = "ok"
      /\ (io.file.state = "blank" \/ io.conn2 = "refused") => io.engine = "ok" }

---------------------------------------------------------------------------
(* utils/file_handler.py, utils/validation_handler.py *)

\* vh.validate_list: True iff the list is non-empty
validate_list(list_object) == Bool(Truthy(list_object))

\* fh.read_query_from_file: (success, query), or None when open/read raises
\* (the except branches log and fall off the end of the function)
read_query_from_file(file) ==
  IF file.state = "missing" THEN None
  ELSE Tuple(Bool(file.state = "text"),
             [t |-> "str", v |-> IF file.state = "text" THEN "sql" ELSE "", ph |-> file.ph])

\* fh.load_json_file: (True, data); None when the file is absent, unparsable or
\* holds empty data (raise FileNotFoundError, caught, falls off the end)
load_json_file(file) ==
  IF ~file.exists \/ file.content = <<>> THEN None
  ELSE Tuple(Bool(TRUE), List(file.content))

\* fh.read_json_file: (validate_list(queries), queries); None when unpacking
\* load_json_file's None raises TypeError (caught, falls off the end)
read_json_file(file) ==
  LET r == load_json_file(file) IN
  IF r.t # "tuple" THEN None
  ELSE Tuple(validate_list(r.b), r.b)

\* the (int(table_id), query[name]) pairs of a list of mapping records
QueryPairs(name, recs) ==
  [i \in 1..Len(recs) |-> <<recs[i].table_id, recs[i][name]>>]

\* fh.get_query_list_from_file(name, queries): iterates `queries` and subscripts
\* each element with "table_id"; an element that is not a dict (the bool of a
\* (success, data) tuple, or iterating None) raises TypeError, which is caught,
\* and the function falls off the end: None
get_query_list_from_file(name, queries) ==
  IF queries.t = "list"
  THEN Tuple(validate_list(List(QueryPairs(name, queries.v))),
             List(QueryPairs(name, queries.v)))
  ELSE None

---------------------------------------------------------------------------
(* db/postgresql.py, db/postgresql_queries.py *)

\* parameter names of db.postgresql.set_pg_connection(database, use_admin=False)
set_pg_connection_params == {"database", "use_admin"}

\* db.set_pg_connection: a connection to the administrative database or to
\* `database`; None when connect raises OperationalError
set_pg_connection(database, use_admin, answer) ==
  IF answer = "refused" THEN None
  ELSE [t |-> "conn", database |-> IF use_admin THEN POSTGRES_DB_NAME ELSE database]

\* a call set_pg_connection(database, <kw>=flag): an unknown keyword raises TypeError
set_pg_connection_kw(database, kw, flag, answer) ==
  IF kw \in set_pg_connection_params
  THEN set_pg_connection(database, flag, answer)
  ELSE Raise("TypeError")

\* string.Template(query).substitute(<key>=...): strict, KeyError on any other placeholder
substitute(query, key) ==
  IF query.ph \subseteq {key} THEN [query EXCEPT !.ph = {}] ELSE Raise("KeyError")

\* cursor.execute(query) / execute_batch(cursor, query, values): what the engine
\* answers; psycopg2 raises TypeError for a query that is not a string and
\* ProgrammingError for an empty one
Execute(query, answer) ==
  IF query.t # "str" THEN "TypeError"
  ELSE IF query.v = "" THEN "Error"
  ELSE answer

\* conn.commit() after a statement that went through, conn.rollback() in the
\* except branch that caught its error
Ending(committed) == IF committed THEN "commit" ELSE "rollback"

\* one statement that reached an engine: the template it came from, the database
\* the connection is open on, the placeholders left in its text, the rows bound,
\* what the engine answered and how the transaction was ended
Stmt(engine, tpl, on, query, rows, outcome, committed) ==
  [engine |-> engine, tpl |-> tpl, on |-> on, empty |-> query.v = "",
   residual |-> query.ph, rows |-> rows, outcome |-> outcome, after |-> Ending(committed)]

\* what a call does to connections, in order
Opened(conn) == IF conn = None THEN <<>> ELSE <<"open">>
\* the finally branch without conn.close()
Closed_never(conn) == <<>>

\* `finally: if conn: cursor.close(); conn.close()`
Closed(conn) == IF conn = None THEN <<>> ELSE <<"close">>

\* the statements of one execute call (a query that is not a string never leaves the driver)
Sent(engine, tpl, on, query, rows, outcome, committed) ==
  IF query.t = "str" THEN <<Stmt(engine, tpl, on, query, rows, outcome, committed)>> ELSE <<>>

\* pg_query with `return success` moved after the except branches and
\* `success = True` set before the statement is executed
pg_query_success_set_early(conn, database, query, values, tpl, io) ==
  LET c == IF conn = None THEN set_pg_connection(database, FALSE, io.conn2) ELSE conn IN
  IF c = None THEN [ret |-> Raise("AttributeError"), stmts |-> <<>>, conns |-> <<>>]
  ELSE LET outcome == Execute(query, io.engine) IN
       [ret |-> Bool(TRUE),
        stmts |-> Sent("pg", tpl, c.database, query, values, outcome, outcome = "ok"),
        conns |-> (IF conn = None THEN Opened(c) ELSE <<>>) \o Closed(c)]

\* q.pg_query(conn, database, query, values): True, or None after a rollback
\* (every except branch falls off the end); AttributeError when no connection
\* can be opened (conn.cursor() is outside the try)
pg_query(conn, database, query, values, tpl, io) ==
  LET c == IF conn = None THEN set_pg_connection(database, FALSE, io.conn2) ELSE conn IN
  IF c = None THEN [ret |-> Raise("AttributeError"), stmts |-> <<>>, conns |-> <<>>]
  ELSE LET outcome == Execute(query, io.engine)
           \* l.35: a query still holding $password is substituted after execution
           late == IF outcome = "ok" /\ "password" \in query.ph
                   THEN substitute(query, "password") ELSE query
           success == outcome = "ok" /\ ~IsRaise(late)
       IN [ret |-> IF success THEN Bool(TRUE) ELSE None,
           stmts |-> Sent("pg", tpl, c.database, query, values, outcome, success),
           conns |-> (IF conn = None THEN Opened(c) ELSE <<>>) \o Closed(c)]

\* q.pg_query_from_file(path, database, use_default): reads the template,
\* substitutes $database then $password, connects and executes; any exception
\* is caught and the function falls off the end: None
pg_query_from_file(tpl, database, use_default, io) ==
  LET r == read_query_from_file(io.file)
      nothing == [ret |-> None, stmts |-> <<>>, conns |-> <<>>]
  IN
  IF r.t # "tuple" THEN nothing
  ELSE
    LET q0 == r.b
        q1 == IF "database" \in q0.ph THEN substitute(q0, "database") ELSE q0
    IN
    IF IsRaise(q1) THEN nothing
    ELSE
      LET q2 == IF "password" \in q1.ph THEN substitute(q1, "password") ELSE q1 IN
      IF IsRaise(q2) THEN nothing
      ELSE
        LET conn == set_pg_connection(database, use_default, io.conn1)
            out == pg_query(conn, database, q2, <<>>, tpl, io)
        IN [ret |-> IF IsRaise(out.ret) THEN None ELSE out.ret,
            stmts |-> out.stmts,
            conns |-> Opened(conn) \o out.conns]

\* db.postgresql.execute_pg_query(conn, database, query, values): True or False
execute_pg_query(conn, database, query, values, tpl, io) ==
  LET c == IF conn = None THEN set_pg_connection(database, FALSE, io.conn2) ELSE conn IN
  IF c = None THEN [ret |-> Raise("AttributeError"), stmts |-> <<>>, conns |-> <<>>]
  ELSE LET outcome == Execute(query, io.engine) IN
       [ret |-> Bool(outcome = "ok"),
        stmts |-> Sent("pg", tpl, c.database, query, values, outcome, outcome = "ok"),
        conns |-> (IF conn = None THEN Opened(c) ELSE <<>>) \o Closed(c)]

---------------------------------------------------------------------------
(* build/build_destination_database.py: the schema provisioner *)

\* the DROP sent over a connection to the database itself
drop_pg_database_scoped(database, io) ==
  pg_query_from_file("db_database__DROP.sql", database, FALSE, io)

drop_pg_database(database, io) ==
  pg_query_from_file("db_database__DROP.sql", database, TRUE, io)

\* the DROP ROLE issued a second time when the first attempt failed
drop_pg_role_retried(database, use_default, io) ==
  LET out == pg_query_from_file("db_role__DROP.sql", database, use_default, io) IN
  IF Truthy(out.ret) THEN out
  ELSE [out EXCEPT !.stmts = @ \o @, !.conns = @ \o @]

drop_pg_role(database, use_default, io) ==
  pg_query_from_file("db_role__DROP.sql", database, use_default, io)

create_pg_database(database, io) ==
  pg_query_from_file("db_database__CREATE.sql", database, TRUE, io)

\* the role created whatever the name
create_pg_role_unconditional(database, io) ==
  pg_query_from_file("db_role__CREATE.sql", database, TRUE, io)

\* a skip reported as a success
create_pg_role_skip_succeeds(database, io) ==
  IF ~HasTestMarker(database)
  THEN pg_query_from_file("db_role__CREATE.sql", database, TRUE, io)
  ELSE [ret |-> Bool(TRUE), stmts |-> <<>>, conns |-> <<>>]

\* skipped (success stays False) when the name contains "_test"
create_pg_role(database, io) ==
  IF ~HasTestMarker(database)
  THEN pg_query_from_file("db_role__CREATE.sql", database, TRUE, io)
  ELSE [ret |-> Bool(FALSE), stmts |-> <<>>, conns |-> <<>>]

grant_pg_database_permissions(database, io) ==
  pg_query_from_file("db_database__GRANT.sql", database, TRUE, io)

create_pg_database_schemas(database, io) ==
  pg_query_from_file("db_schemas__CREATE.sql", database, FALSE, io)

grant_pg_table_permissions(database, io) ==
  pg_query_from_file("db_role__GRANT.sql", database, FALSE, io)

---------------------------------------------------------------------------
(* utils/query_mapping_handler.py: the mapping compiler *)

Rows == [table_id : TableIds, execution_order : Orders, is_app_table : {0, 1}]
\* mapping.csv: unreadable (absent, a column missing, a table_id that is no integer) or rows
CsvFiles ==
  { [read |-> TRUE, readable |-> FALSE, rows |-> <<>>] }
  \cup { [read |-> TRUE, readable |-> TRUE, rows |-> r] :
           r \in UNION { [1..n -> Rows] : n \in 0..MaxRows } }
NotRead == [read |-> FALSE, readable |-> FALSE, rows |-> <<>>]

\* the SQL files a row names (one set of files per table_id)
QueryFile(kind, id) == [kind |-> kind, id |-> id]

\* pd.read_csv: one DataFrame row per CSV row, labelled by its position
ReadCsv(rows) ==
  [i \in 1..Len(rows) |->
     [idx |-> i, table_id |-> rows[i].table_id,
      execution_order |-> rows[i].execution_order,
      is_app_table |-> rows[i].is_app_table]]

\* the filter left out: every row of the CSV goes through
FilterAppTables_all(df) == df

\* df[df['is_app_table'] == 1]
FilterAppTables(df) == SelectSeq(df, LAMBDA r : r.is_app_table = 1)

\* (execution_order, table_id) of a is strictly before that of b
KeyLess(a, b) ==
  \/ a.execution_order < b.execution_order
  \/ a.execution_order = b.execution_order /\ a.table_id < b.table_id

RECURSIVE InsertRow(_, _)
\* r placed in front of the first row whose key is not smaller than r's
InsertRow(r, s) ==
  IF s = <<>> THEN <<r>>
  ELSE IF KeyLess(Head(s), r) THEN <<Head(s)>> \o InsertRow(r, Tail(s))
  ELSE <<r>> \o s

\* the frame sort_values returns dropped, the unsorted one kept
sort_values_not_assigned(df) == df

RECURSIVE sort_values(_)
\* df.sort_values(by=["execution_order", "table_id"]): a stable sort
sort_values(df) ==
  IF df = <<>> THEN <<>> ELSE InsertRow(Head(df), sort_values(Tail(df)))

\* the columns each role reads (usecols) besides is_app_table
SourceRecord(r) ==
  [idx |-> r.idx, table_id |-> r.table_id, execution_order |-> r.execution_order,
   source_query_select |-> QueryFile("select", r.table_id)]
\* table_id read from the execution_order column
DestinationRecord_wrong_column(r) ==
  [idx |-> r.idx, table_id |-> r.execution_order, execution_order |-> r.execution_order,
   destination_query_create |-> QueryFile("create", r.table_id),
   destination_query_insert |-> QueryFile("insert", r.table_id)]

DestinationRecord(r) ==
  [idx |-> r.idx, table_id |-> r.table_id, execution_order |-> r.execution_order,
   destination_query_create |-> QueryFile("create", r.table_id),
   destination_query_insert |-> QueryFile("insert", r.table_id)]

DataFrame(rows) == [t |-> "DataFrame", rows |-> rows]

\* qmh.get_source_mapping_data: the filtered, sorted frame; None when read_csv
\* or astype raises (caught, falls off the end)
get_source_mapping_data(file) ==
  IF ~file.readable THEN None
  ELSE LET df == sort_values(FilterAppTables(ReadCsv(file.rows))) IN
       DataFrame([i \in 1..Len(df) |-> SourceRecord(df[i])])

\* the destination frame filtered but left in the order of the CSV
get_destination_mapping_data_unsorted(file) ==
  IF ~file.readable THEN None
  ELSE LET df == FilterAppTables(ReadCsv(file.rows)) IN
       DataFrame([i \in 1..Len(df) |-> DestinationRecord(df[i])])

\* qmh.get_destination_mapping_data
get_destination_mapping_data(file) ==
  IF ~file.readable THEN None
  ELSE LET df == sort_values(FilterAppTables(ReadCsv(file.rows))) IN
       DataFrame([i \in 1..Len(df) |-> DestinationRecord(df[i])])

\* reset_index() before to_json: the row label written as one more column
to_json_with_index(data) == data.rows

\* DataFrame.to_json(orient="records"): one object per row, the row label dropped
to_json(data) ==
  [i \in 1..Len(data.rows) |->
     [c \in (DOMAIN data.rows[i]) \ {"idx"} |-> data.rows[i][c]]]

WriteAnswers == {"ok", "raises", "absent"}
NoFile == [exists |-> FALSE, content |-> <<>>]

\* `success = True` after to_json, the existence of the file not looked at
write_mapping_data_unverified(data, old, answer) ==
  CASE answer = "ok" -> [ret |-> Bool(TRUE), file |-> [exists |-> TRUE, content |-> to_json(data)]]
    [] answer = "absent" -> [ret |-> Bool(TRUE), file |-> NoFile]
    [] OTHER -> [ret |-> None, file |-> old]

\* qmh.write_mapping_data: os.path.isfile(output) after to_json; None when to_json raises
write_mapping_data(data, old, answer) ==
  CASE answer = "ok" -> [ret |-> Bool(TRUE), file |-> [exists |-> TRUE, content |-> to_json(data)]]
    [] answer = "absent" -> [ret |-> Bool(FALSE), file |-> NoFile]
    [] OTHER -> [ret |-> None, file |-> old]

---------------------------------------------------------------------------
(* build/build_destination_database.py: the Table Builder *)

\* what the environment answers for one record of a mapping loop
LoopIO ==
  { io \in PgIO : io.file.ph = {} /\ io.engine \in {"ok", "IntegrityError"} /\ io.conn2 = "ok" }

RECURSIVE create_tables_loop(_, _, _, _, _, _)
\* the for loop of create_pg_tables from record i on; `success` is overwritten
\* by every pg_query and nothing leaves the loop but an exception
create_tables_loop(database, queries, ios, i, success, done) ==
  IF i > Len(queries) THEN [ret |-> success, stmts |-> done, conns |-> <<>>]
  ELSE
    LET item == queries[i].destination_query_create
        r == read_query_from_file(ios[i].file)
        failed == [ret |-> None, stmts |-> done, conns |-> <<>>]
    IN
    IF r.t # "tuple" THEN failed              \* unpacking None: TypeError, l.426
    ELSE IF ~Truthy(r.a) THEN failed          \* raise FileNotFoundError, l.410
    ELSE
      LET conn == set_pg_connection_kw(database, "use_default", FALSE, ios[i].conn1) IN
      IF IsRaise(conn) THEN failed            \* l.412 raises, l.426
      ELSE
        LET out == pg_query(conn, database, r.b, <<>>, item, ios[i])
            here == Opened(conn) \o out.conns
        IN
        IF IsRaise(out.ret)
        THEN [ret |-> None, stmts |-> done \o out.stmts, conns |-> here]
        ELSE LET rest == create_tables_loop(database, queries, ios, i + 1, out.ret,
                                            done \o out.stmts)
             IN [rest EXCEPT !.conns = here \o @]

\* pgdb.create_pg_tables(database, file): the value of the last pg_query, or
\* None when anything raised (both except branches fall off the end)
create_pg_tables(database, file, ios) ==
  LET r == read_json_file(file)
      failed == [ret |-> None, stmts |-> <<>>, conns |-> <<>>]
  IN
  IF r.t # "tuple" THEN failed                \* unpacking None: TypeError
  ELSE IF Len(r.b.v) < 2 THEN failed          \* queries[1]: IndexError
  ELSE create_tables_loop(database, r.b.v, ios, 1, r.a, <<>>)

---------------------------------------------------------------------------
(* db/sql_server.py, extract/get_source_data.py: the Extractor *)

MssqlAnswers == {"ok", "refused", "DatabaseError"}
SourceRows == { <<>>, <<"r1">>, <<"r1", "r2">> }
\* what the environment answers for one record of the source mapping
SourceIO ==
  { [file |-> f, conn |-> c, rows |-> r] :
      f \in { tf \in TemplateFiles : tf.ph = {} }, c \in MssqlAnswers, r \in SourceRows }

\* execute_sql_query(conn=None, query): the rows fetched; [] when connect or
\* execute raises DatabaseError/Error; TypeError (not caught) when the query is
\* not a string
execute_sql_query(query, tpl, io) ==
  IF io.conn = "refused" THEN [ret |-> List(<<>>), stmts |-> <<>>, conns |-> <<>>]
  ELSE IF query.t # "str"
       THEN [ret |-> Raise("TypeError"), stmts |-> <<>>, conns |-> <<"open", "close">>]
  ELSE IF io.conn = "DatabaseError" \/ query.v = ""
       THEN [ret |-> List(<<>>),
             stmts |-> <<Stmt("mssql", tpl, <<"source">>, query, <<>>, "DatabaseError", FALSE)>>,
             conns |-> <<"open", "close">>]
  ELSE [ret |-> List(io.rows),
        stmts |-> <<Stmt("mssql", tpl, <<"source">>, query, <<>>, "ok", TRUE)>>,
        conns |-> <<"open", "close">>]

\* one entry (table_id, rows) of the extraction result
Entry(id, rows) == [table_id |-> id, rows |-> rows]

RECURSIVE extract_loop(_, _, _, _, _)
\* the for loop of get_source_data from pair i on; an exception ends the loop
\* and what was accumulated is returned
extract_loop(pairs, ios, i, data, done) ==
  IF i > Len(pairs) THEN [ret |-> List(data), stmts |-> done, conns |-> <<>>]
  ELSE
    LET query == read_query_from_file(ios[i].file) IN
    IF ~Truthy(query)                                \* raise FileNotFoundError
    THEN [ret |-> List(data), stmts |-> done, conns |-> <<>>]
    ELSE
      \* l.163: `query` is the (success, text) pair read_query_from_file returns
      LET out == execute_sql_query(query, pairs[i][2], ios[i]) IN
      IF IsRaise(out.ret)
      THEN [ret |-> List(data), stmts |-> done \o out.stmts, conns |-> out.conns]
      ELSE LET rest == extract_loop(pairs, ios, i + 1,
                                    Append(data, Entry(pairs[i][1], out.ret.v)),
                                    done \o out.stmts)
           IN [rest EXCEPT !.conns = out.conns \o @]

\* srcdata.get_source_data(file): returns the list `data` alone
get_source_data(file, ios) ==
  LET queries == read_json_file(file)
      nothing == [ret |-> List(<<>>), stmts |-> <<>>, conns |-> <<>>]
  IN
  IF queries.t # "tuple" THEN nothing            \* None[0]: TypeError
  ELSE IF ~Truthy(queries.a) THEN nothing
  ELSE
    LET query_list == get_query_list_from_file("source_query_select", queries.b) IN
    IF query_list.t # "tuple" THEN nothing       \* None[1]: TypeError
    ELSE extract_loop(query_list.b.v, ios, 1, <<>>, <<>>)

---------------------------------------------------------------------------
(* load/insert_source_data.py: the Loader *)

RECURSIVE insert_loop(_, _, _, _, _, _, _)
\* the for loop of insert_pg_tables from pair i on; `success` becomes True after
\* every execute_pg_query, whose result is not looked at; an exception ends the loop
insert_loop(database, pairs, data, ios, i, success, done) ==
  IF i > Len(pairs) THEN [ret |-> success, stmts |-> done, conns |-> <<>>]
  ELSE
    LET stop == [ret |-> success, stmts |-> done, conns |-> <<>>] IN
    IF data.t # "list" THEN stop                 \* t[0] on something that is not a pair
    ELSE
      LET values == SelectSeq(data.v, LAMBDA t : t.table_id = pairs[i][1])
          query == read_query_from_file(ios[i].file)
      IN
      IF ~Truthy(query) THEN stop                \* raise FileNotFoundError
      ELSE
        \* l.183: the connection is opened before values[0][1] is evaluated
        LET conn == set_pg_connection(database, FALSE, ios[i].conn1) IN
        IF values = <<>>                         \* values[0][1]: IndexError
        THEN [stop EXCEPT !.conns = Opened(conn)]
        ELSE
          \* l.186: `query` is the (success, text) pair read_query_from_file returns
          LET out == execute_pg_query(conn, database, query, values[1].rows,
                                      pairs[i][2], ios[i])
              here == Opened(conn) \o out.conns
          IN
          IF IsRaise(out.ret)
          THEN [ret |-> success, stmts |-> done \o out.stmts, conns |-> here]
          ELSE LET rest == insert_loop(database, pairs, data, ios, i + 1, Bool(TRUE),
                                       done \o out.stmts)
               IN [rest EXCEPT !.conns = here \o @]

\* dest.insert_pg_tables(database, file, data): success, False unless the loop
\* got past one record
insert_pg_tables(database, file, data, ios) ==
  LET queries == load_json_file(file)
      failed == [ret |-> Bool(FALSE), stmts |-> <<>>, conns |-> <<>>]
  IN
  IF queries.t # "tuple" THEN failed             \* None[0]: TypeError
  ELSE IF ~Truthy(queries.a) THEN failed
  ELSE
    \* l.162: passes the (success, data) pair itself, not the data
    LET query_list == get_query_list_from_file("destination_query_insert", queries) IN
    IF query_list.t # "tuple" THEN failed        \* None[1]: TypeError
    ELSE insert_loop(database, query_list.b.v, data, ios, 1, Bool(FALSE), <<>>)

---------------------------------------------------------------------------
(* main.py: the Orchestrator *)

\* main() granting the table permissions of the test database before its
\* schemas exist
main_calls_grant_before_schemas ==
  << [f |-> "drop_database", on |-> "D"],
     [f |-> "drop_database", on |-> "T"],
     [f |-> "drop_role", on |-> "D"],
     [f |-> "build_mapping_data", on |-> "source"],
     [f |-> "build_mapping_data", on |-> "destination"],
     [f |-> "create_database", on |-> "D"],
     [f |-> "create_role", on |-> "D"],
     [f |-> "grant_database_permissions", on |-> "D"],
     [f |-> "create_database_schemas", on |-> "D"],
     [f |-> "grant_table_permissions", on |-> "D"],
     [f |-> "create_database", on |-> "T"],
     [f |-> "grant_database_permissions", on |-> "T"],
     [f |-> "grant_table_permissions", on |-> "T"],
     [f |-> "create_database_schemas", on |-> "T"],
     [f |-> "create_database_tables", on |-> "D"],
     [f |-> "create_database_tables", on |-> "T"],
     [f |-> "extract_source_data", on |-> "source"],
     [f |-> "load_destination_tables", on |-> "D"],
     [f |-> "load_destination_tables", on |-> "T"] >>

\* main() with the role created after the database grant
main_calls_role_after_grant ==
  << [f |-> "drop_database", on |-> "D"],
     [f |-> "drop_database", on |-> "T"],
     [f |-> "drop_role", on |-> "D"],
     [f |-> "build_mapping_data", on |-> "source"],
     [f |-> "build_mapping_data", on |-> "destination"],
     [f |-> "create_database", on |-> "D"],
     [f |-> "grant_database_permissions", on |-> "D"],
     [f |-> "create_role", on |-> "D"],
     [f |-> "create_database_schemas", on |-> "D"],
     [f |-> "grant_table_permissions", on |-> "D"],
     [f |-> "create_database", on |-> "T"],
     [f |-> "grant_database_permissions", on |-> "T"],
     [f |-> "create_database_schemas", on |-> "T"],
     [f |-> "grant_table_permissions", on |-> "T"],
     [f |-> "create_database_tables", on |-> "D"],
     [f |-> "create_database_tables", on |-> "T"],
     [f |-> "extract_source_data", on |-> "source"],
     [f |-> "load_destination_tables", on |-> "D"],
     [f |-> "load_destination_tables", on |-> "T"] >>

\* the calls of main(), l.97-141, in program order; the last one is under
\* `if args.seed_test_database:`
main_calls ==
  << [f |-> "drop_database", on |-> "D"],
     [f |-> "drop_database", on |-> "T"],
     [f |-> "drop_role", on |-> "D"],
     [f |-> "build_mapping_data", on |-> "source"],
     [f |-> "build_mapping_data", on |-> "destination"],
     [f |-> "create_database", on |-> "D"],
     [f |-> "create_role", on |-> "D"],
     [f |-> "grant_database_permissions", on |-> "D"],
     [f |-> "create_database_schemas", on |-> "D"],
     [f |-> "grant_table_permissions", on |-> "D"],
     [f |-> "create_database", on |-> "T"],
     [f |-> "grant_database_permissions", on |-> "T"],
     [f |-> "create_database_schemas", on |-> "T"],
     [f |-> "grant_table_permissions", on |-> "T"],
     [f |-> "create_database_tables", on |-> "D"],
     [f |-> "create_database_tables", on |-> "T"],
     [f |-> "extract_source_data", on |-> "source"],
     [f |-> "load_destination_tables", on |-> "D"],
     [f |-> "load_destination_tables", on |-> "T"] >>

\* args.database, or test_database = f"{args.database}_test" (l.90)
Target(on) == IF on = "T" THEN test_database(args.database) ELSE args.database

\* the values argparse hands over for --seed-test-database (type=str)
SeedFlags == {"True", "False"}

\* the call after the one at p: l.140 skips the load of the test database
\* unless args.seed_test_database is truthy
NextPc(p) ==
  IF p + 1 = Len(main_calls) /\ ~Truthy(Str(args.seed_test_database))
  THEN p + 2 ELSE p + 1

\* create_role exiting with the message of create_database
exit_text_role_as_database ==
  [ load_destination_tables |-> "Destination Tables not loaded.",
    extract_source_data |-> "No source data returned.",
    create_database_tables |-> "Tables not created.",
    grant_table_permissions |-> "Table Permissions not granted.",
    create_database_schemas |-> "Database Schemas not created.",
    grant_database_permissions |-> "Database Permissions not granted.",
    create_role |-> "Database not created.",
    create_database |-> "Database not created.",
    build_mapping_data |-> "Query/Table Mapping failed.",
    drop_role |-> "Role failed to drop.",
    drop_database |-> "Database failed to drop." ]

\* the text each wrapper of main.py hands to sys.exit, after "EXITING: "
exit_text ==
  [ load_destination_tables |-> "Destination Tables not loaded.",
    extract_source_data |-> "No source data returned.",
    create_database_tables |-> "Tables not created.",
    grant_table_permissions |-> "Table Permissions not granted.",
    create_database_schemas |-> "Database Schemas not created.",
    grant_database_permissions |-> "Database Permissions not granted.",
    create_role |-> "Role not created.",
    create_database |-> "Database not created.",
    build_mapping_data |-> "Query/Table Mapping failed.",
    drop_role |-> "Role failed to drop.",
    drop_database |-> "Database failed to drop." ]

\* the wrappers whose message is an f-string that names the database
NamesDatabase == {"create_database_tables"}

\* the argument of sys.exit in wrapper f called for `database`, as a sequence
\* of tokens: "EXITING: [<database> ]<text>"
exit_message(f, database) ==
  <<"EXITING:">> \o (IF f \in NamesDatabase THEN database ELSE <<>>) \o <<exit_text[f]>>

\* what `stmts` keeps of a statement: the call of main() that sent it and the
\* database that call was made for
Brief(s, database) ==
  [step |-> Len(steps) + 1, engine |-> s.engine, tpl |-> s.tpl, database |-> database,
   rows |-> s.rows, ok |-> s.outcome = "ok"]

\* the record of a component call
Called(io, out) == [inp |-> io, ret |-> out.ret, sent |-> out.stmts, conns |-> out.conns]

\* a wrapper that went on after a falsy indicator
ReturnWithoutExit(c, success) ==
  /\ steps' = Append(steps, [f |-> c.f, on |-> c.on, ok |-> Truthy(success)])
  /\ pc' = NextPc(pc)
  /\ status' = IF NextPc(pc) > Len(main_calls) THEN "completed" ELSE "running"
  /\ exit_msg' = <<>>

\* the tail of every wrapper of main.py: `if not success: sys.exit(msg)`,
\* otherwise the wrapper returns and main() goes on with its next call
Return(c, success) ==
  /\ steps' = Append(steps, [f |-> c.f, on |-> c.on, ok |-> Truthy(success)])
  /\ IF Truthy(success)
     THEN /\ pc' = NextPc(pc)
          /\ status' = IF NextPc(pc) > Len(main_calls) THEN "completed" ELSE "running"
          /\ exit_msg' = <<>>
     ELSE /\ pc' = pc
          /\ status' = "exited"
          /\ exit_msg' = exit_message(c.f, Target(c.on))

\* an exception raised in wrapper c.f that nobody catches leaves main(): the
\* interpreter prints the traceback, whose innermost frame is the wrapper
Crash(c, e) ==
  /\ steps' = Append(steps, [f |-> c.f, on |-> c.on, ok |-> FALSE])
  /\ pc' = pc
  /\ status' = "crashed"
  /\ exit_msg' = <<"Traceback", c.f, e>>

\* a wrapper around one provisioning function of pgdb
Provision(c, io, out) ==
  /\ call' = Called(<<io>>, out)
  /\ stmts' = stmts \o [i \in 1..Len(out.stmts) |-> Brief(out.stmts[i], Target(c.on))]
  /\ Return(c, out.ret)
  /\ UNCHANGED <<op, args, csv, artifacts, source_data>>

drop_database(c) ==
  \E io \in PgIO :
    Provision(c, io, drop_pg_database(Target(c.on), io))

drop_role(c) ==
  \E io \in PgIO :
    Provision(c, io, drop_pg_role(Target(c.on), TRUE, io))

create_database(c) ==
  \E io \in PgIO :
    Provision(c, io, create_pg_database(Target(c.on), io))

create_role(c) ==
  \E io \in PgIO :
    Provision(c, io, create_pg_role(Target(c.on), io))

grant_database_permissions(c) ==
  \E io \in PgIO :
    Provision(c, io, grant_pg_database_permissions(Target(c.on), io))

create_database_schemas(c) ==
  \E io \in PgIO :
    Provision(c, io, create_pg_database_schemas(Target(c.on), io))

grant_table_permissions(c) ==
  \E io \in PgIO :
    Provision(c, io, grant_pg_table_permissions(Target(c.on), io))

\* build_mapping_data without `if not mapping.empty`: an empty frame is written too
build_mapping_data_writes_empty(c) ==
  \E file \in CsvFiles, answer \in WriteAnswers :
    /\ csv.read => file = csv
    /\ csv' = file
    /\ LET mapping == IF c.on = "source" THEN get_source_mapping_data(file)
                      ELSE get_destination_mapping_data(file)
       IN
       IF mapping = None
       THEN /\ Crash(c, "AttributeError")
            /\ call' = [inp |-> <<>>, ret |-> None, sent |-> <<>>, conns |-> <<>>]
            /\ UNCHANGED artifacts
       ELSE LET w == write_mapping_data(mapping, artifacts[c.on], answer) IN
            /\ Return(c, w.ret)
            /\ call' = [inp |-> <<answer>>, ret |-> w.ret, sent |-> <<>>, conns |-> <<>>]
            /\ artifacts' = [artifacts EXCEPT ![c.on] = w.file]
    /\ UNCHANGED <<op, args, stmts, source_data>>

\* build_mapping_data(mapping_type, MAPPING_FILE, output_file): mapping.empty
\* raises AttributeError when the compiler returned None
build_mapping_data(c) ==
  \E file \in CsvFiles, answer \in WriteAnswers :
    /\ csv.read => file = csv
    /\ csv' = file
    /\ LET mapping == IF c.on = "source" THEN get_source_mapping_data(file)
                      ELSE get_destination_mapping_data(file)
       IN
       IF mapping = None
       THEN /\ Crash(c, "AttributeError")
            /\ call' = [inp |-> <<>>, ret |-> None, sent |-> <<>>, conns |-> <<>>]
            /\ UNCHANGED artifacts
       ELSE IF mapping.rows = <<>>
       THEN /\ Return(c, Bool(FALSE))
            /\ call' = [inp |-> <<>>, ret |-> Bool(FALSE), sent |-> <<>>, conns |-> <<>>]
            /\ UNCHANGED artifacts
       ELSE LET w == write_mapping_data(mapping, artifacts[c.on], answer) IN
            /\ Return(c, w.ret)
            /\ call' = [inp |-> <<answer>>, ret |-> w.ret, sent |-> <<>>, conns |-> <<>>]
            /\ artifacts' = [artifacts EXCEPT ![c.on] = w.file]
    /\ UNCHANGED <<op, args, stmts, source_data>>

\* the answers to one loop over the records of a mapping artifact
LoopAnswers(file, answers) == [1..Len(file.content) -> answers]

create_database_tables(c) ==
  \E ios \in LoopAnswers(artifacts.destination, LoopIO) :
    LET out == create_pg_tables(Target(c.on), artifacts.destination, ios) IN
    /\ call' = Called(ios, out)
    /\ stmts' = stmts \o [i \in 1..Len(out.stmts) |-> Brief(out.stmts[i], Target(c.on))]
    /\ Return(c, out.ret)
    /\ UNCHANGED <<op, args, csv, artifacts, source_data>>

\* extract_source_data(SOURCE_FILE): `success, source_data = get_source_data(...)`
\* unpacks the list get_source_data returns; ValueError unless it has two entries
extract_source_data(c) ==
  \E ios \in LoopAnswers(artifacts.source, SourceIO) :
    LET out == get_source_data(artifacts.source, ios) IN
    /\ call' = Called(ios, out)
    /\ stmts' = stmts \o [i \in 1..Len(out.stmts) |-> Brief(out.stmts[i], <<"source">>)]
    /\ IF Len(out.ret.v) # 2
       THEN Crash(c, "ValueError") /\ UNCHANGED source_data
       ELSE /\ Return(c, Tuple(out.ret.v[1].table_id, out.ret.v[1].rows))
            /\ source_data' = Tuple(out.ret.v[2].table_id, out.ret.v[2].rows)
    /\ UNCHANGED <<op, args, csv, artifacts>>

load_destination_tables(c) ==
  \E ios \in LoopAnswers(artifacts.destination, LoopIO) :
    LET out == insert_pg_tables(Target(c.on), artifacts.destination, source_data, ios) IN
    /\ call' = Called(ios, out)
    /\ stmts' = stmts \o [i \in 1..Len(out.stmts) |-> Brief(out.stmts[i], Target(c.on))]
    /\ Return(c, out.ret)
    /\ UNCHANGED <<op, args, csv, artifacts, source_data>>

\* the call main() is at
main_call ==
  LET c == main_calls[pc] IN
     CASE c.f = "drop_database" -> drop_database(c)
       [] c.f = "drop_role" -> drop_role(c)
       [] c.f = "build_mapping_data" -> build_mapping_data(c)
       [] c.f = "create_database" -> create_database(c)
       [] c.f = "create_role" -> create_role(c)
       [] c.f = "grant_database_permissions" -> grant_database_permissions(c)
       [] c.f = "create_database_schemas" -> create_database_schemas(c)
       [] c.f = "grant_table_permissions" -> grant_table_permissions(c)
       [] c.f = "create_database_tables" -> create_database_tables(c)
       [] c.f = "extract_source_data" -> extract_source_data(c)
       [] c.f = "load_destination_tables" -> load_destination_tables(c)

\* main(args): the next call of the sequence, while no call has ended the run
main ==
  /\ op = "main"
  /\ status = "running"
  /\ main_call
  /\ UNCHANGED cluster

NoCall == [inp |-> <<>>, ret |-> Pending, sent |-> <<>>, conns |-> <<>>]
\* a behaviour that draws the server's answers instead of tracking the server
Untracked == [t |-> "untracked"]

\* python main.py --database <name> --seed-test-database <text>
Init ==
  /\ op = "main"
  /\ args \in [database : DatabaseNames, seed_test_database : SeedFlags]
  /\ csv = NotRead
  /\ artifacts = [source |-> NoFile, destination |-> NoFile]
  /\ pc = 1
  /\ status = "running"
  /\ exit_msg = <<>>
  /\ steps = <<>>
  /\ stmts = <<>>
  /\ source_data = Pending
  /\ call = NoCall
  /\ cluster = Untracked

Next == main

Spec == Init /\ [][Next]_vars

\* main() is one sequential program: while no call has ended the run and every
\* call it makes returns, it goes on to its next call
SpecFair == Spec /\ WF_vars(main)

---------------------------------------------------------------------------
(* The Loader called on its own: dest.insert_pg_tables(database, file, data) *)

\* the destination artifacts the compiler can write
DestinationArtifacts ==
  { [exists |-> TRUE, content |-> to_json(get_destination_mapping_data(c))] :
      c \in { f \in CsvFiles : f.readable /\ FilterAppTables(ReadCsv(f.rows)) # <<>> } }

\* extraction results: (table_id, rows) entries, one per table at most
Entries == { Entry(id, rows) : id \in TableIds, rows \in SourceRows }
ExtractionResults ==
  { d \in UNION { [1..n -> Entries] : n \in 0..MaxRows } :
      \A i, j \in 1..Len(d) : i # j => d[i].table_id # d[j].table_id }

InitLoader ==
  /\ op = "insert_pg_tables"
  /\ args \in [database : DatabaseNames, seed_test_database : {"False"}]
  /\ csv = NotRead
  /\ artifacts \in [source : {NoFile}, destination : DestinationArtifacts]
  /\ pc = 1
  /\ status = "running"
  /\ exit_msg = <<>>
  /\ steps = <<>>
  /\ stmts = <<>>
  /\ source_data \in { List(d) : d \in ExtractionResults }
  /\ call \in { [inp |-> ios, ret |-> Pending, sent |-> <<>>, conns |-> <<>>] :
                  ios \in UNION { [1..n -> LoopIO] : n \in 1..MaxRows } }
  /\ Len(call.inp) = Len(artifacts.destination.content)
  /\ cluster = Untracked

\* a Loader that takes the entries out of `data` as it goes (data.pop)
Load_consuming ==
  /\ op = "insert_pg_tables"
  /\ status = "running"
  /\ LET out == insert_pg_tables(args.database, artifacts.destination, source_data,
                                 call.inp)
     IN /\ call' = Called(call.inp, out)
        /\ stmts' = stmts \o [i \in 1..Len(out.stmts) |-> Brief(out.stmts[i], args.database)]
  /\ source_data' = List(<<>>)
  /\ status' = "returned"
  /\ UNCHANGED <<op, args, csv, artifacts, pc, exit_msg, steps, cluster>>

\* one call of insert_pg_tables; call.inp holds what the environment will answer
\* for each record of the mapping
Load ==
  /\ op = "insert_pg_tables"
  /\ status = "running"
  /\ LET out == insert_pg_tables(args.database, artifacts.destination, source_data,
                                 call.inp)
     IN /\ call' = Called(call.inp, out)
        /\ stmts' = stmts \o [i \in 1..Len(out.stmts) |-> Brief(out.stmts[i], args.database)]
  /\ status' = "returned"
  /\ UNCHANGED <<op, args, csv, artifacts, pc, exit_msg, steps, source_data, cluster>>

SpecLoader == InitLoader /\ [][Load]_vars

---------------------------------------------------------------------------
(* The mapping compiler called on its own: qmh.get_<role>_mapping_data(file),
   then qmh.write_mapping_data(mapping, output_file) *)

Roles == {"source", "destination"}

InitCompiler ==
  /\ op = "compile"
  /\ args \in [database : {<<"sales">>}, seed_test_database : {"False"}]
  /\ csv \in CsvFiles
  /\ artifacts = [source |-> NoFile, destination |-> NoFile]
  /\ pc = 1
  /\ status = "running"
  /\ exit_msg = <<>>
  /\ steps = <<>>
  /\ stmts = <<>>
  /\ source_data = Pending
  /\ call = NoCall
  /\ cluster = Untracked

\* mapping = qmh.get_source_mapping_data(csv) / qmh.get_destination_mapping_data(csv)
Compile ==
  /\ op = "compile"
  /\ status = "running"
  /\ \E role \in Roles :
       call' = [inp |-> <<role>>,
                ret |-> IF role = "source" THEN get_source_mapping_data(csv)
                        ELSE get_destination_mapping_data(csv),
                sent |-> <<>>, conns |-> <<>>]
  /\ status' = "compiled"
  /\ UNCHANGED <<op, args, csv, artifacts, pc, exit_msg, steps, stmts, source_data, cluster>>

\* qmh.write_mapping_data(mapping, output_file) on the frame just compiled
Persist ==
  /\ op = "compile"
  /\ status = "compiled"
  /\ call.ret # None
  /\ \E answer \in WriteAnswers :
       LET role == call.inp[1]
           w == write_mapping_data(call.ret, artifacts[role], answer)
       IN /\ artifacts' = [artifacts EXCEPT ![role] = w.file]
          /\ call' = [call EXCEPT !.inp = <<role, answer>>]
          /\ steps' = Append(steps, [f |-> "write_mapping_data", on |-> role,
                                     ok |-> Truthy(w.ret)])
  /\ status' = "written"
  /\ UNCHANGED <<op, args, csv, pc, exit_msg, stmts, source_data, cluster>>

NextCompiler == Compile \/ Persist

SpecCompiler == InitCompiler /\ [][NextCompiler]_vars

---------------------------------------------------------------------------
(* The extraction step called on its own: extract_source_data(SOURCE_FILE) of
   main.py, which calls srcdata.get_source_data *)

\* the source artifacts the compiler can write
SourceArtifacts ==
  { [exists |-> TRUE, content |-> to_json(get_source_mapping_data(c))] :
      c \in { f \in CsvFiles : f.readable /\ FilterAppTables(ReadCsv(f.rows)) # <<>> } }

\* l.133 of main(): the position of extract_source_data in main_calls
ExtractPc == CHOOSE p \in 1..Len(main_calls) : main_calls[p].f = "extract_source_data"

InitExtractor ==
  /\ op = "extract_source_data"
  /\ args \in [database : {<<"sales">>}, seed_test_database : SeedFlags]
  /\ csv = NotRead
  /\ artifacts \in [source : SourceArtifacts, destination : {NoFile}]
  /\ pc = ExtractPc
  /\ status = "running"
  /\ exit_msg = <<>>
  /\ steps = <<>>
  /\ stmts = <<>>
  /\ source_data = Pending
  /\ call = NoCall
  /\ cluster = Untracked

Extract ==
  /\ op = "extract_source_data"
  /\ status = "running"
  /\ pc = ExtractPc
  /\ extract_source_data(main_calls[ExtractPc])
  /\ UNCHANGED cluster

SpecExtractor == InitExtractor /\ [][Extract]_vars

---------------------------------------------------------------------------
(* The teardown of main() (drop D, drop D_test, drop the role) against a
   PostgreSQL server whose databases and role are tracked.  The SQL scripts
   are not part of the sources: what they do is taken from the design
   document (section 4.3). *)

\* the shared role of D and D_test
RoleName == <<"etl_role">>

\* the text of a script of the destination folder: DROP DATABASE IF EXISTS
\* $database WITH (FORCE); the DROP ROLE script names the role itself
ScriptText(tpl) ==
  [state |-> "text", ph |-> IF tpl = "db_role__DROP.sql" THEN {} ELSE {"database"}]

\* what the server answers to a DROP script run for `database`: a target that
\* does not exist is skipped without error; a protected system database is refused
EngineSays(cl, tpl, database) ==
  IF tpl = "db_database__DROP.sql" /\ database = POSTGRES_DB_NAME THEN "Error" ELSE "ok"

\* the server after a DROP script that ran without error
Apply(cl, tpl, database) ==
  IF tpl = "db_database__DROP.sql"
  THEN [cl EXCEPT !.databases = @ \ {database},
                  !.skipped = IF database \in cl.databases THEN @ ELSE @ \cup {database}]
  ELSE [cl EXCEPT !.role = FALSE,
                  !.skipped = IF cl.role THEN @ ELSE @ \cup {RoleName}]

\* psycopg2.connect(database=...): refused when the database does not exist
Reachable(database) ==
  IF database = POSTGRES_DB_NAME \/ database \in cluster.databases THEN "ok" ELSE "refused"

\* the provisioner call a teardown wrapper of main.py makes
pgdb_call(c, io) ==
  IF c.f = "drop_database" THEN drop_pg_database(Target(c.on), io)
  ELSE drop_pg_role(Target(c.on), TRUE, io)

\* the answers io are those of the tracked server: the script is there or not,
\* a connection is accepted iff its database exists, the engine answers as the
\* script's statement deserves
ClusterAnswers(c, io, sent) ==
  LET probe == pgdb_call(c, [file |-> [state |-> "text", ph |-> {}], conn1 |-> "ok",
                             conn2 |-> "ok", engine |-> "ok"]).stmts[1]
  IN /\ io.file \in {ScriptText(probe.tpl), [state |-> "missing", ph |-> {}]}
     /\ io.file.state = "text" => io.conn1 = Reachable(probe.on)
     /\ io.conn1 = "refused" => io.conn2 = Reachable(Target(c.on))
     /\ sent # <<>> => io.engine = EngineSays(cluster, sent[1].tpl, Target(c.on))

InitTeardown ==
  /\ op = "teardown"
  /\ args \in [database : DatabaseNames, seed_test_database : SeedFlags]
  /\ csv = NotRead
  /\ artifacts = [source |-> NoFile, destination |-> NoFile]
  /\ pc = 1
  /\ status = "running"
  /\ exit_msg = <<>>
  /\ steps = <<>>
  /\ stmts = <<>>
  /\ source_data = Pending
  /\ call = NoCall
  /\ cluster \in [databases : SUBSET {args.database, test_database(args.database)},
                  role : BOOLEAN, skipped : {{}}]

\* l.97-103 of main(): drop_database(args.database), drop_database(test_database),
\* drop_role(args.database)
Teardown ==
  /\ op = "teardown"
  /\ status = "running"
  /\ main_calls[pc].f \in {"drop_database", "drop_role"}
  /\ main_call
  /\ ClusterAnswers(main_calls[pc], call'.inp[1], call'.sent)
  /\ cluster' = IF call'.sent # <<>> /\ call'.sent[1].outcome = "ok"
                THEN Apply(cluster, call'.sent[1].tpl, Target(main_calls[pc].on))
                ELSE cluster

SpecTeardown == InitTeardown /\ [][Teardown]_vars

---------------------------------------------------------------------------
(* Claims *)

\* the records of the destination artifact and the answers the environment
\* gave for each of them during the last call
Mapping == artifacts.destination.content
\* the environment answers record i's template read, connection and statement without error
Healthy(io) == io.file.state = "text" /\ io.engine = "ok"
\* the engine rejects the statement of the record
StatementFails(io) == io.file.state = "text" /\ io.engine # "ok"

\* main() has just come back from create_database_tables(args.database, ...)
AtTables ==
  /\ op = "main"
  /\ steps # <<>>
  /\ steps[Len(steps)].f = "create_database_tables"
  /\ pc = Len(steps)

\* the order of the steps as the claim lists it
C1_Order ==
  << <<"drop_database", "D">>, <<"drop_database", "T">>, <<"drop_role", "D">>,
     <<"build_mapping_data", "source">>, <<"build_mapping_data", "destination">>,
     <<"create_database", "D">>, <<"create_role", "D">>,
     <<"grant_database_permissions", "D">>, <<"create_database_schemas", "D">>,
     <<"grant_table_permissions", "D">>,
     <<"create_database", "T">>, <<"grant_database_permissions", "T">>,
     <<"create_database_schemas", "T">>, <<"grant_table_permissions", "T">>,
     <<"create_database_tables", "D">>, <<"create_database_tables", "T">>,
     <<"extract_source_data", "source">>,
     <<"load_destination_tables", "D">>, <<"load_destination_tables", "T">> >>

\* C1: the steps of a run execute in the order drop D, drop D_test, drop role,
\* source mapping, destination mapping, provision D (database, role, database
\* grant, schemas, table grant), provision D_test (database, database grant,
\* schemas, table grant), tables of D, tables of D_test, extract, load D, load
\* D_test: the steps made so far are always an initial part of that list, and
\* the statements reach the engine in the order of the steps that sent them.
C1_StepsInOrder ==
  /\ Len(steps) <= Len(C1_Order)
  /\ \A i \in 1..Len(steps) : <<steps[i].f, steps[i].on>> = C1_Order[i]
  /\ \A i, j \in 1..Len(stmts) : i < j => stmts[i].step <= stmts[j].step

\* a run that made every step up to the creation of the tables of D
C1_Witness ==
  /\ op = "main"
  /\ Len(steps) = 15
  /\ steps[15].f = "create_database_tables"
  /\ \A i \in 1..14 : steps[i].ok
  /\ Len(stmts) = 12

\* C2: a step that reports failure is the last step of the run: no later step
\* is made, no statement of a later step reaches an engine, and the run is not
\* COMPLETED.
C2_FailureHalts ==
  /\ \A i \in 1..Len(steps) :
       ~steps[i].ok => /\ i = Len(steps)
                       /\ status \in {"exited", "crashed"}
                       /\ \A k \in 1..Len(stmts) : stmts[k].step <= i
  /\ status = "completed" => \A i \in 1..Len(steps) : steps[i].ok

\* a run halted by an engine error at CREATE DATABASE, after the three drops
\* and both mappings went through
C2_Witness ==
  /\ op = "main"
  /\ status = "exited"
  /\ Len(steps) = 6
  /\ ~steps[6].ok
  /\ exit_msg = exit_message("create_database", args.database)
  /\ Len(call.sent) = 1
  /\ call.sent[1].outcome # "ok"
  /\ Len(stmts) = 4

\* C6: the Table Builder is fail-fast: when the CREATE TABLE of record N is the
\* first one the engine rejects, the statements of records 1..N reached the
\* engine and none of a later record did (N statements, not the mapping length).
C6_FailFastCount ==
  AtTables =>
    \A N \in 1..Len(Mapping) :
      (StatementFails(call.inp[N]) /\ \A j \in 1..(N - 1) : Healthy(call.inp[j]))
        => /\ Len(call.sent) = N
           /\ \A k \in 1..N : call.sent[k].tpl = Mapping[k].destination_query_create

\* C7: create_tables reports success if and only if the CREATE TABLE of every
\* record of the Destination Mapping is read, sent and answered without error.
C7_SuccessIffAllCreated ==
  AtTables =>
    (Truthy(call.ret) <=> \A i \in 1..Len(Mapping) : Healthy(call.inp[i]))

\* insert_pg_tables has returned
Loaded == op = "insert_pg_tables" /\ status = "returned"
\* the table_ids the extraction result has an entry for
ExtractedIds == { source_data.v[i].table_id : i \in 1..Len(source_data.v) }

\* C9: load reports success if and only if the insert of every table of the
\* Destination Mapping is read, sent and answered without error.
C9_SuccessIffAllInserted ==
  Loaded =>
    (Truthy(call.ret) <=> \A i \in 1..Len(Mapping) : Healthy(call.inp[i]))

\* C10: a record whose table_id has no entry in the extraction result is no
\* error: with every other table answered without error, nothing is inserted
\* for it, the tables that have an entry get their INSERT, and load reports
\* success.
C10_MissingEntryIsNoError ==
  ( /\ Loaded
    /\ \E i \in 1..Len(Mapping) : Mapping[i].table_id \notin ExtractedIds
    /\ \A i \in 1..Len(Mapping) : Healthy(call.inp[i]) )
  => /\ Truthy(call.ret)
     /\ \A i \in 1..Len(Mapping) :
          Mapping[i].table_id \in ExtractedIds
            => \E k \in 1..Len(call.sent) :
                 call.sent[k].tpl = Mapping[i].destination_query_insert

---------------------------------------------------------------------------
(* Claims about the mapping compiler *)

\* the compiler has returned a frame (not None) for call.inp[1]
Compiled == op = "compile" /\ status \in {"compiled", "written"} /\ call.ret # None
\* the rows of the compiled mapping
CompiledRows == call.ret.rows
\* positions of the CSV rows flagged is_app_table
AppRows == { i \in 1..Len(csv.rows) : csv.rows[i].is_app_table = 1 }

C12_ExactlyAppTables ==
  Compiled =>
    /\ { CompiledRows[i].idx : i \in 1..Len(CompiledRows) } = AppRows
    /\ Len(CompiledRows) = Cardinality(AppRows)
    /\ \A i \in 1..Len(CompiledRows) :
         /\ CompiledRows[i].table_id = csv.rows[CompiledRows[i].idx].table_id
         /\ CompiledRows[i].execution_order = csv.rows[CompiledRows[i].idx].execution_order

\* a CSV with a flagged and an unflagged row, compiled to the flagged one
C12_Witness ==
  /\ Compiled
  /\ Len(csv.rows) = 2
  /\ Cardinality(AppRows) = 1
  /\ Len(CompiledRows) = 1

\* C13 as stated: no two records of a compiled mapping share a table_id.
C13_UniqueTableId ==
  Compiled =>
    \A i, j \in 1..Len(CompiledRows) :
      i # j => CompiledRows[i].table_id # CompiledRows[j].table_id

\* C13: when the CSV rows flagged is_app_table have pairwise distinct table_ids,
\* no two records of the compiled mapping (source or destination) share a table_id.
C13_UniqueWhenCsvUnique ==
  ( /\ Compiled
    /\ \A i, j \in AppRows : i # j => csv.rows[i].table_id # csv.rows[j].table_id )
  => \A i, j \in 1..Len(CompiledRows) :
       i # j => CompiledRows[i].table_id # CompiledRows[j].table_id

\* two flagged rows with different table_ids and the same execution_order, compiled
C13_Witness ==
  /\ Compiled
  /\ Len(CompiledRows) = 2
  /\ CompiledRows[1].table_id # CompiledRows[2].table_id
  /\ CompiledRows[1].execution_order = CompiledRows[2].execution_order

\* write_mapping_data has written the compiled mapping and reported success
Written ==
  /\ op = "compile"
  /\ status = "written"
  /\ steps[Len(steps)].ok
\* fh.read_json_file on the artifact just written
ReadBack == read_json_file(artifacts[call.inp[1]])
\* record j of the artifact has the columns of row r of the frame, with r's values
SameRecord(j, r) ==
  /\ DOMAIN j = (DOMAIN r) \ {"idx"}
  /\ \A c \in DOMAIN j : j[c] = r[c]
\* the artifact read back is the sequence of the compiled records, in order
ReadBackEqual ==
  /\ ReadBack.t = "tuple"
  /\ load_json_file(artifacts[call.inp[1]]).t = "tuple"
  /\ ReadBack.b = load_json_file(artifacts[call.inp[1]]).b
  /\ ReadBack.b.t = "list"
  /\ Len(ReadBack.b.v) = Len(CompiledRows)
  /\ \A i \in 1..Len(CompiledRows) : SameRecord(ReadBack.b.v[i], CompiledRows[i])

---------------------------------------------------------------------------
(* Claims about the Extractor *)

\* extract_source_data has been called and get_source_data has returned
Extracted == op = "extract_source_data" /\ steps # <<>>
\* the records of the source artifact
SourceMapping == artifacts.source.content
\* the template of the record is read and the source system runs its SELECT
Answered(io) == io.file.state = "text" /\ io.conn = "ok"

\* C15: a table whose SELECT returns zero rows (every SELECT up to it answered)
\* is recorded in the extraction result as (table_id, no rows), and extraction
\* succeeds when another table yielded rows.
C15_ZeroRowsRecorded ==
  Extracted =>
    \A i \in 1..Len(SourceMapping) :
      ( /\ \A j \in 1..i : Answered(call.inp[j])
        /\ call.inp[i].rows = <<>> )
      => /\ \E k \in 1..Len(call.ret.v) :
              call.ret.v[k] = Entry(SourceMapping[i].table_id, <<>>)
         /\ (\E j \in 1..Len(SourceMapping) : Answered(call.inp[j]) /\ call.inp[j].rows # <<>>)
              => steps[1].ok

\* C16: with no entry accumulated the run halts before any load; with at least
\* one entry accumulated extraction counts as successful and main() goes on to
\* the load of D.
C16_EmptyHaltsElseProceeds ==
  Extracted =>
    /\ call.ret.v = <<>> => status \in {"exited", "crashed"} /\ pc = ExtractPc
    /\ call.ret.v # <<>> => /\ steps[1].ok
                            /\ status = "running"
                            /\ main_calls[pc].f = "load_destination_tables"

---------------------------------------------------------------------------
(* Claims about the schema provisioner *)

\* the target of the drop main() is about to call does not exist
TargetAbsent ==
  IF main_calls[pc].f = "drop_role" THEN ~cluster.role
  ELSE Target(main_calls[pc].on) \notin cluster.databases

\* C17: teardown is idempotent: a drop_database or drop_role whose target does
\* not exist (its script being readable) reports success and main() goes on to
\* its next call, so that on a server without D, D_test and the role the run
\* gets past the three drops to the compilation of the mappings.
C17_DropOfAbsentSucceeds ==
  [][ ( /\ op = "teardown"
        /\ Len(steps') = Len(steps) + 1
        /\ TargetAbsent
        /\ call'.inp[1].file.state = "text" )
      => /\ steps'[Len(steps')].ok
         /\ status' = "running"
         /\ pc' = pc + 1 ]_vars

\* the three drops found nothing to drop and main() is at the source mapping
C17_Witness ==
  /\ op = "teardown"
  /\ status = "running"
  /\ Len(steps) = 3
  /\ \A i \in 1..3 : steps[i].ok
  /\ cluster.skipped = {args.database, test_database(args.database), RoleName}
  /\ main_calls[pc].f = "build_mapping_data"

\* the positions in stmts of the CREATE ROLE statements
RoleCreates == { k \in 1..Len(stmts) : stmts[k].tpl = "db_role__CREATE.sql" }
\* the scripts that grant to the role
GrantScripts == {"db_database__GRANT.sql", "db_role__GRANT.sql"}
\* both databases are provisioned: main() is past grant_table_permissions(test_database)
Provisioned ==
  /\ op = "main"
  /\ Len(steps) >= 14
  /\ \A i \in 1..14 : steps[i].ok

\* C18: create_role on a name that contains the test-suffix marker sends no
\* statement; CREATE ROLE is sent at most once in a run, by create_role for D,
\* before any grant for D or D_test and never while D_test is provisioned; a run
\* that provisioned both databases executed it exactly once.
C18_RoleCreatedOnceForD ==
  op = "main" =>
    /\ \A i \in 1..Len(steps) :
         (steps[i].f = "create_role" /\ HasTestMarker(Target(steps[i].on)))
           => \A k \in 1..Len(stmts) : stmts[k].step # i
    /\ Cardinality(RoleCreates) <= 1
    /\ \A k \in RoleCreates :
         /\ steps[stmts[k].step].f = "create_role"
         /\ steps[stmts[k].step].on = "D"
         /\ stmts[k].database = args.database
         /\ ~HasTestMarker(stmts[k].database)
         /\ \A j \in 1..Len(stmts) : stmts[j].tpl \in GrantScripts => k < j
    /\ Provisioned => \E k \in RoleCreates : stmts[k].ok

\* both databases provisioned, the role created once, four grants after it
C18_Witness ==
  /\ Provisioned
  /\ Cardinality(RoleCreates) = 1
  /\ Cardinality({ j \in 1..Len(stmts) : stmts[j].tpl \in GrantScripts }) = 4

\* the wrappers of main.py that run one templated script through pg_query_from_file
Templated ==
  {"drop_database", "drop_role", "create_database", "create_role",
   "grant_database_permissions", "create_database_schemas", "grant_table_permissions"}

\* main() has just come back from a templated call that did run its script
AfterScript ==
  /\ op = "main"
  /\ steps # <<>>
  /\ steps[Len(steps)].f \in Templated
  /\ ~(steps[Len(steps)].f = "create_role" /\ HasTestMarker(Target(steps[Len(steps)].on)))

\* C19: substitution is total and strict: a script with any combination of
\* $database and $password (both bound: the database argument, the configured
\* password), read and run over an accepted connection, is executed with every
\* placeholder replaced; and no statement is ever executed with a placeholder
\* left in it.
C19_SubstitutionTotalAndStrict ==
  AfterScript =>
    /\ (call.inp[1].file.state = "text" /\ call.inp[1].conn1 = "ok")
         => /\ Len(call.sent) = 1
            /\ call.sent[1].residual = {}
    /\ \A k \in 1..Len(call.sent) : call.sent[k].residual = {}

---------------------------------------------------------------------------
(* Claims about re-running main() *)

\* every statement the run sent so far was answered without error
AllStatementsOk == \A k \in 1..Len(stmts) : stmts[k].ok
\* main() has left early: sys.exit in a wrapper, or an exception nobody caught
Halted == op = "main" /\ status \in {"exited", "crashed"}

\* C20: a run of main() from the top, on whatever an earlier halted run left
\* behind, in which every engine statement succeeds goes on to COMPLETED: at
\* the creation of the tables of D, with every template read, every connection
\* accepted and every statement of the run answered without error, the run
\* has not halted.
C20_RerunCompletes ==
  ( /\ AtTables
    /\ AllStatementsOk
    /\ \A i \in 1..Len(Mapping) : Healthy(call.inp[i]) /\ call.inp[i].conn1 = "ok" )
  => ~Halted

---------------------------------------------------------------------------
(* Claims about the diagnostics of a halted run *)

\* the wrappers of main.py, each a named stage of the run
Stages == DOMAIN exit_text
\* every database a wrapper can be called for in this run
Targets == {args.database, test_database(args.database)}
\* the step that ended the run
FailedStep == steps[Len(steps)]

\* the exit status of the process: sys.exit(<str>) prints the string and exits
\* with 1, an uncaught exception prints the traceback and exits with 1, main()
\* returning ends the script with 0
ExitStatus == IF status = "completed" THEN 0 ELSE 1

---------------------------------------------------------------------------
(* Claims about the schema provisioner *)

\* the provisioning wrappers, in the order of the state machine
ProvisionOrder ==
  <<"create_database", "create_role", "grant_database_permissions",
    "create_database_schemas", "grant_table_permissions">>
ProvisionFns == { ProvisionOrder[i] : i \in 1..Len(ProvisionOrder) }

\* the provisioning steps main() has made for database x ("D" or "T"), in order
ProvisionSteps(x) == SelectSeq(steps, LAMBDA s : s.on = x /\ s.f \in ProvisionFns)

\* the transitions of the state machine for x: the role step is left out for
\* the test database
Transitions(x) ==
  IF x = "D" THEN ProvisionOrder
  ELSE SelectSeq(ProvisionOrder, LAMBDA f : f # "create_role")

\* C22: for each target database the provisioning steps made so far are an
\* initial part of create database, create role (D only), grant database
\* permissions, create schemas, grant table permissions, each made once, and
\* every step but the last one made has signaled success.
C22_ProvisionerStateMachine ==
  \A x \in {"D", "T"} :
    LET p == ProvisionSteps(x) IN
    /\ Len(p) <= Len(Transitions(x))
    /\ \A i \in 1..Len(p) :
         /\ p[i].f = Transitions(x)[i]
         /\ i < Len(p) => p[i].ok

\* both databases provisioned to the end, the role step made for D only
C22_Witness ==
  /\ op = "main"
  /\ Len(ProvisionSteps("D")) = 5
  /\ Len(ProvisionSteps("T")) = 4
  /\ \A i \in 1..4 : ProvisionSteps("T")[i].ok

---------------------------------------------------------------------------
(* Claims about engine errors and connections *)

\* the statements of the last call that the engine rejected
Rejected == { k \in 1..Len(call.sent) : call.sent[k].outcome # "ok" }

C24_IndicatorInEveryOutcome ==
  (op = "main" /\ steps # <<>>) =>
    /\ status # "crashed"
    /\ FailedStep.f = "extract_source_data" =>
         /\ call.ret.t = "tuple"
         /\ call.ret.a.t = "bool"

\* statements i and j of the run are the same statement for the same target
SameStatement(i, j) ==
  /\ stmts[i].engine = stmts[j].engine
  /\ stmts[i].database = stmts[j].database
  /\ stmts[i].tpl = stmts[j].tpl

\* C25: every statement is attempted at most once per run and target: no two
\* statements of a run come from the same template for the same database, and
\* a statement that failed is the last statement of the run.
C25_AtMostOneAttempt ==
  op = "main" =>
    /\ \A i, j \in 1..Len(stmts) : i < j => ~SameStatement(i, j)
    /\ \A k \in 1..Len(stmts) : ~stmts[k].ok => k = Len(stmts)

\* the engine rejects the DROP ROLE of a run: it was sent once and nothing followed
C25_Witness ==
  /\ op = "main"
  /\ status = "exited"
  /\ FailedStep.f = "drop_role"
  /\ Len(stmts) = 3
  /\ ~stmts[3].ok
  /\ stmts[3].tpl = "db_role__DROP.sql"

RECURSIVE OpenAfter(_, _)
\* the number of connections open after the first n connection events of a call
OpenAfter(events, n) ==
  IF n = 0 THEN 0
  ELSE OpenAfter(events, n - 1) + (IF events[n] = "open" THEN 1 ELSE -1)

\* C26: a connection is opened per operation and closed before the next one
\* begins, on success and on failure alike: at every point of every component
\* call at most one connection is open, and none is open when the call returns
\* (so none is open between the steps of a run or when the run ends).
C26_OneConnectionAtATime ==
  /\ \A n \in 0..Len(call.conns) : OpenAfter(call.conns, n) \in {0, 1}
  /\ OpenAfter(call.conns, Len(call.conns)) = 0

\* a step that failed at the engine over its second connection attempt: the
\* connection was opened and closed again
C26_Witness ==
  /\ op = "main"
  /\ status = "exited"
  /\ Rejected # {}
  /\ call.inp[1].conn1 = "refused"
  /\ call.conns = <<"open", "close">>

---------------------------------------------------------------------------
(* Claims about template files *)

\* the file is absent, or holds nothing but newlines and tabs
AbsentOrBlank(file) == file.state \in {"missing", "blank"}

\* C27: a template file that is absent or blank is fatal to the step that
\* needed it, here the extraction: when the SELECT file of the first record of
\* the Source Mapping is absent or blank, no statement is executed for it, the
\* extraction step does not count as a success and the run halts there.
C27_TemplateFatalToExtraction ==
  (Extracted /\ AbsentOrBlank(call.inp[1].file)) =>
    /\ call.sent = <<>>
    /\ ~steps[1].ok
    /\ status \in {"exited", "crashed"}

---------------------------------------------------------------------------
(* Claims about the Table Builder and the Loader *)

\* C28: for a Destination Mapping of n >= 1 records whose templates are read
\* and whose statements the engine accepts, create_pg_tables issues exactly n
\* CREATE TABLE statements on the target database, one per record, in the
\* order of the artifact.
C28_OneCreatePerRecord ==
  ( /\ AtTables
    /\ \A i \in 1..Len(Mapping) : Healthy(call.inp[i]) /\ call.inp[i].conn1 = "ok" )
  => /\ Len(call.sent) = Len(Mapping)
     /\ \A k \in 1..Len(call.sent) :
          /\ call.sent[k].tpl = Mapping[k].destination_query_create
          /\ call.sent[k].on = Target(FailedStep.on)

\* the rows the extraction result holds for table id
RowsOf(id) ==
  LET e == CHOOSE k \in 1..Len(source_data.v) : source_data.v[k].table_id = id
  IN source_data.v[e].rows

\* C29: the Loader visits the records of the Destination Mapping in persisted
\* order and binds to each record's INSERT template exactly the rows of the
\* entry with the record's table_id: with an entry for every record and every
\* insert answered without error, statement k of the call is the INSERT of
\* record k with the rows of that record's table.
C29_RowsOfMatchingEntry ==
  ( /\ Loaded
    /\ \A i \in 1..Len(Mapping) : Mapping[i].table_id \in ExtractedIds
    /\ \A i \in 1..Len(Mapping) : Healthy(call.inp[i]) /\ call.inp[i].conn1 = "ok" )
  => /\ Len(call.sent) = Len(Mapping)
     /\ \A k \in 1..Len(call.sent) :
          /\ call.sent[k].tpl = Mapping[k].destination_query_insert
          /\ call.sent[k].rows = RowsOf(Mapping[k].table_id)

\* C30: the Extraction Result holds exactly one (table_id, rows) entry per
\* record of the Source Mapping, in the order of the artifact, each tagged with
\* its record's table_id: with every SELECT file read and every SELECT
\* answered by the source system, entry k is (table_id of record k, the rows
\* its SELECT returned).
C30_OneEntryPerRecord ==
  (Extracted /\ \A i \in 1..Len(SourceMapping) : Answered(call.inp[i]))
  => /\ Len(call.ret.v) = Len(SourceMapping)
     /\ \A k \in 1..Len(call.ret.v) :
          call.ret.v[k] = Entry(SourceMapping[k].table_id, call.inp[k].rows)

---------------------------------------------------------------------------
(* Claims about the connection a statement runs on *)

\* the wrappers whose statement is a database- or role-level operation
AdminLevel ==
  {"drop_database", "drop_role", "create_database", "create_role",
   "grant_database_permissions"}
\* the wrappers whose statement is a schema- or table-level operation
DatabaseLevel ==
  {"create_database_schemas", "grant_table_permissions", "create_database_tables",
   "load_destination_tables"}

\* C31: every statement of a database- or role-level step runs on a connection
\* to the administrative database, and every statement of a schema- or
\* table-level step runs on a connection to the database the step was called for.
C31_ConnectionScope ==
  (op = "main" /\ steps # <<>>) =>
    \A k \in { n \in 1..Len(call.sent) : ~call.sent[n].empty } :
      /\ FailedStep.f \in AdminLevel => call.sent[k].on = POSTGRES_DB_NAME
      /\ FailedStep.f \in DatabaseLevel => call.sent[k].on = Target(FailedStep.on)

---------------------------------------------------------------------------
(* Claims about the mapping stage of main() *)

\* main() has just come back from a build_mapping_data that got as far as
\* write_mapping_data; call.inp[1] is what the file system did with the write
AfterWrite ==
  /\ op = "main"
  /\ steps # <<>>
  /\ FailedStep.f = "build_mapping_data"
  /\ call.inp # <<>>

\* C32: write_mapping_data reports success only if the artifact exists on disk
\* after the write: when the write raises or leaves no file the step is not a
\* success and main() exits with the mapping message; when the step is a
\* success the artifact of its role is on disk.
C32_WriteVerified ==
  AfterWrite =>
    /\ FailedStep.ok => artifacts[FailedStep.on].exists
    /\ call.inp[1] # "ok" =>
         /\ ~Truthy(call.ret)
         /\ ~FailedStep.ok
         /\ status = "exited"
         /\ exit_msg = <<"EXITING:", "Query/Table Mapping failed.">>

\* the write of the destination artifact went through without raising but no
\* file is there afterwards
C32_Witness ==
  /\ AfterWrite
  /\ FailedStep.on = "destination"
  /\ call.inp[1] = "absent"
  /\ ~artifacts.destination.exists
  /\ artifacts.source.exists
  /\ status = "exited"

---------------------------------------------------------------------------
(* Claims about the Loader's use of the Extraction Result *)

---------------------------------------------------------------------------
(* Claims about the two mappings of one run *)

\* the table_id column of a mapping artifact, in the artifact's order
TableIdsOf(file) == [i \in 1..Len(file.content) |-> file.content[i].table_id]

\* C34: once a run has written both artifacts from its mapping CSV, the
\* Source Mapping and the Destination Mapping hold the same table_ids in the
\* same order.
C34_MappingsAgree ==
  (op = "main" /\ artifacts.source.exists /\ artifacts.destination.exists) =>
    TableIdsOf(artifacts.source) = TableIdsOf(artifacts.destination)

\* both artifacts written from a CSV whose two application rows are listed
\* against their execution order
C34_Witness ==
  /\ op = "main"
  /\ artifacts.source.exists /\ artifacts.destination.exists
  /\ Len(csv.rows) = 2
  /\ csv.rows[1].execution_order > csv.rows[2].execution_order
  /\ TableIdsOf(artifacts.destination) = <<csv.rows[2].table_id, csv.rows[1].table_id>>
  /\ csv.rows[1].table_id # csv.rows[2].table_id

\* the CSV this run read has no record with is_app_table = 1
EmptyMapping ==
  /\ op = "main"
  /\ csv.read /\ csv.readable
  /\ FilterAppTables(ReadCsv(csv.rows)) = <<>>

\* C35: when the compiled mapping is empty, no artifact is written and the run
\* halts at the mapping stage with the mapping-failed diagnostic, before any
\* database is created.
C35_EmptyMappingHalts ==
  EmptyMapping =>
    /\ artifacts = [source |-> NoFile, destination |-> NoFile]
    /\ status = "exited"
    /\ FailedStep.f = "build_mapping_data" /\ ~FailedStep.ok
    /\ exit_msg = <<"EXITING:", "Query/Table Mapping failed.">>
    /\ \A k \in 1..Len(steps) : steps[k].f # "create_database"
    /\ \A k \in 1..Len(stmts) : stmts[k].tpl # "db_database__CREATE.sql"

\* a run halted on a CSV of two rows, neither of them an application table,
\* after its teardown sent its statements
C35_Witness ==
  /\ EmptyMapping
  /\ Len(csv.rows) = 2
  /\ Len(steps) = 4
  /\ stmts # <<>>
  /\ status = "exited"

---------------------------------------------------------------------------
(* Claims about a production database named like a test database *)

\* the run was started for a database whose own name contains "_test" and has
\* come as far as its role-creation call
RoleSkippedForD ==
  /\ op = "main"
  /\ HasTestMarker(args.database)
  /\ Len(steps) >= 7

\* C36: create_pg_role returns a failure result when it skips, so a run for a
\* database whose name contains "_test" halts at role creation with the
\* role diagnostic, after creating the database and before any grant.
C36_TestNamedDatabaseHaltsAtRole ==
  RoleSkippedForD =>
    /\ Len(steps) = 7
    /\ FailedStep.f = "create_role" /\ ~FailedStep.ok
    /\ ~Truthy(call.ret) /\ call.sent = <<>>
    /\ status = "exited"
    /\ exit_msg = <<"EXITING:", "Role not created.">>
    /\ steps[6].f = "create_database" /\ steps[6].ok
    /\ \A k \in 1..Len(stmts) :
         /\ stmts[k].tpl \notin GrantScripts
         /\ stmts[k].tpl # "db_role__CREATE.sql"

\* the halted run, its CREATE DATABASE executed on the test-named database
C36_Witness ==
  /\ RoleSkippedForD
  /\ status = "exited"
  /\ \E k \in 1..Len(stmts) :
       /\ stmts[k].tpl = "db_database__CREATE.sql"
       /\ stmts[k].ok
       /\ stmts[k].database = args.database

---------------------------------------------------------------------------
(* Claims about loading a table that has no rows *)

\* the records of the Destination Mapping whose entry holds no rows
EmptyTables ==
  { i \in 1..Len(Mapping) : RowsOf(Mapping[i].table_id) = <<>> }

\* C37: a record whose matching entry has an empty row sequence is loaded
\* with no rows and counts as a success: with an entry for every record, one
\* of them empty, and every insert answered without error, the Loader goes
\* through every record, binds no rows for the empty table and reports success.
C37_EmptyRowsLoadNothing ==
  ( /\ Loaded
    /\ \A i \in 1..Len(Mapping) : Mapping[i].table_id \in ExtractedIds
    /\ EmptyTables # {}
    /\ \A i \in 1..Len(Mapping) : Healthy(call.inp[i]) /\ call.inp[i].conn1 = "ok" )
  => /\ Truthy(call.ret)
     /\ Len(call.sent) = Len(Mapping)
     /\ \A k \in EmptyTables : call.sent[k].rows = <<>>

---------------------------------------------------------------------------
(* Claims about termination *)

\* the statements call c of main() may send: one script for a teardown or
\* provisioning call, one statement per record of the mapping it loops over
\* for a table, extraction or load call, none for a mapping call
StepBudget(c) ==
  CASE c.f \in Templated -> 1
    [] c.f = "build_mapping_data" -> 0
    [] c.f = "extract_source_data" -> Len(artifacts.source.content)
    [] OTHER -> Len(artifacts.destination.content)

\* the statements the run sent in its i-th call
StatementsOf(i) == { k \in 1..Len(stmts) : stmts[k].step = i }

\* every call of main() is made at most once and stays within its budget
StatementsBounded ==
  op = "main" =>
    /\ Len(steps) <= Len(main_calls)
    /\ \A i, j \in 1..Len(steps) :
         i < j => [f |-> steps[i].f, on |-> steps[i].on] # [f |-> steps[j].f, on |-> steps[j].on]
    /\ \A k \in 1..Len(stmts) : stmts[k].step \in 1..Len(steps)
    /\ \A i \in 1..Len(steps) : Cardinality(StatementsOf(i)) <= StepBudget(steps[i])
    /\ Len(stmts) <= 12 + Len(artifacts.source.content)
                        + 4 * Len(artifacts.destination.content)

\* C38: every run terminates, in COMPLETED or in a halted state announced by
\* an EXITING diagnostic, after finitely many statements: at most one per
\* teardown or provisioning step and one per mapping record for each table
\* creation, the extraction and each load.
C38_RunTerminates ==
  /\ []StatementsBounded
  /\ <>(op = "main" /\ status \in {"completed", "exited"})

===========================================================================
